---- MODULE Spec2Model ----
(***************************************************************************)
(* A model of sbsolver, the Spelling Bee solver: the word value object,    *)
(* scoring and pangram classification, the word finder, and the word       *)
(* corpus store in its flat-file form (word_logic.py), its relational form *)
(* (core/utils.py, core/definitions.py) and the older relational form      *)
(* (utils.py, definitions.py).                                             *)
(*                                                                         *)
(* A string is a sequence of one-character strings, so that set(word),     *)
(* len(word), str.lower and str.strip are computed as Python computes      *)
(* them.                                                                   *)
(***************************************************************************)
EXTENDS Integers, Sequences, FiniteSets, TLC

VARIABLES
    word,           \* the argument of a scoring call
    out,            \* what the scoring call returned
    letters,        \* the puzzle letters given to find_words
    found,          \* what find_words returned or raised
    wordlist_file,  \* WORDLIST_FILE
    addendum_file,  \* ADDENDUM_FILE
    variant,        \* the corpus store of the program: "files", "db", "legacy_db"
    db,             \* WORDS_DB
    added,          \* the latest call that adds words, and its argument
    round,          \* the latest reconciliation: official answers, missing words
    boot,           \* the fetches of the base word list, and what they stored
    api,            \* the words looked up at the definition API
    response,       \* what the definition API answered to one lookup
    defined_words,  \* the Word objects handed to the display or to a batch
    tasks           \* the coroutines of one async_batch_fetch

wordVars == <<word, out>>
findVars == <<letters, found>>
fileVars == <<wordlist_file, addendum_file>>
dbVars == <<variant, db>>
histVars == <<added, round>>
logVars == <<boot, api>>
showVars == <<defined_words, tasks>>
vars ==
    <<word, out, letters, found, wordlist_file, addendum_file, variant, db,
      added, round, boot, api, response, defined_words, tasks>>

(***************************************************************************)
(* Bounds of the model.                                                    *)
(***************************************************************************)
\* how many letters of Alphabet the generated words and puzzles draw on
NumLetters == 8
\* longest run of consecutive letters a generated word starts with
MaxStem == 8
\* how many times a generated word repeats its first letter at its end
MaxRepeat == 2
\* longest puzzle letter string (beyond NumLetters a letter repeats)
MaxPuzzleLen == 9
\* how many words the corpus store is given to add
NumStoreWords == 2
\* how many lines the addendum file grows to
MaxAddendumLines == 2
\* how many words the fetched base word list has
MaxBaseWords == 2
\* how many rows the definitions table of the older schema grows to
MaxDefinitionRows == 4

(***************************************************************************)
(* Characters and strings.                                                 *)
(***************************************************************************)
Alphabet == <<"a", "l", "g", "r", "n", "t", "y", "e", "s", "d">>
UpperAlphabet == <<"A", "L", "G", "R", "N", "T", "Y", "E", "S", "D">>

Letters == SubSeq(Alphabet, 1, NumLetters)

\* set(s): the distinct characters of a string
CharSet(s) == {s[i] : i \in DOMAIN s}

\* the number of distinct characters of a string, for the properties
Distinct(w) == Cardinality({w[i] : i \in 1..Len(w)})

\* str.lower on one character: only cased letters change
LowerChar(c) ==
    IF \E i \in DOMAIN UpperAlphabet : UpperAlphabet[i] = c
    THEN Alphabet[CHOOSE i \in DOMAIN UpperAlphabet : UpperAlphabet[i] = c]
    ELSE c

\* str.lower
Lower(s) == [i \in 1..Len(s) |-> LowerChar(s[i])]

\* str.upper on a string of the model's letters (used to build raw inputs)
Upper(s) ==
    [i \in 1..Len(s) |->
        IF \E j \in DOMAIN Alphabet : Alphabet[j] = s[i]
        THEN UpperAlphabet[CHOOSE j \in DOMAIN Alphabet : Alphabet[j] = s[i]]
        ELSE s[i]]

Whitespace == {" ", "\t", "\n", "\r"}

\* str.strip: leading and trailing whitespace removed
RECURSIVE Strip(_)
Strip(s) ==
    IF s = <<>> THEN <<>>
    ELSE IF s[1] \in Whitespace THEN Strip(Tail(s))
    ELSE IF s[Len(s)] \in Whitespace THEN Strip(SubSeq(s, 1, Len(s) - 1))
    ELSE s

\* the characters of the model in code point order
CodeOrder ==
    <<"\t", "\n", "\r", " ",
      "A", "D", "E", "G", "L", "N", "R", "S", "T", "Y",
      "a", "d", "e", "g", "l", "n", "r", "s", "t", "y">>

OrdOf ==
    [c \in {CodeOrder[i] : i \in DOMAIN CodeOrder} |->
        CHOOSE i \in DOMAIN CodeOrder : CodeOrder[i] = c]

\* ord(c), up to the characters the model leaves out
Ord(c) == OrdOf[c]

\* a < b on strings: the first character that differs decides, and a
\* proper prefix is the smaller
RECURSIVE StrLess(_, _)
StrLess(a, b) ==
    IF b = <<>> THEN FALSE
    ELSE IF a = <<>> THEN TRUE
    ELSE IF a[1] = b[1] THEN StrLess(Tail(a), Tail(b))
    ELSE Ord(a[1]) < Ord(b[1])

\* sorted(S) for a set of strings
Sorted(S) ==
    [i \in 1..Cardinality(S) |->
        CHOOSE x \in S : Cardinality({y \in S : StrLess(y, x)}) = i - 1]

(***************************************************************************)
(* The generated words: Stem(s, k) is k consecutive letters of Letters     *)
(* from position s on (wrapping around), and a word is a stem followed by  *)
(* up to MaxRepeat repetitions of the letter at s.                         *)
(***************************************************************************)
LetterAt(i) == Letters[((i - 1) % NumLetters) + 1]

Stem(s, k) == [i \in 1..k |-> LetterAt(s + i - 1)]

Repeat(c, r) == [i \in 1..r |-> c]

GenWords ==
    {Stem(s, k) \o Repeat(LetterAt(s), r) :
        s \in 1..NumLetters, k \in 0..MaxStem, r \in 0..MaxRepeat}

\* Word.from_list is given the answers as the puzzle page spells them: a
\* word as it is, in capitals, or capitalised
Capitalised(w) == [i \in 1..Len(w) |-> IF i = 1 THEN Upper(w)[1] ELSE w[i]]

RawWords == GenWords \cup {Upper(w) : w \in GenWords} \cup {Capitalised(w) : w \in GenWords}

(***************************************************************************)
(* Scoring and classification.                                             *)
(***************************************************************************)
PangramLetters == 7
PangramBonus == 7
ShortWordLen == 4

is_pangram_at_least(w) == Cardinality(CharSet(w)) >= PangramLetters

\* word_logic.is_pangram
is_pangram(w) == Cardinality(CharSet(w)) = PangramLetters

score_per_letter(w) == Len(w) + (IF is_pangram(w) THEN PangramBonus ELSE 0)

\* word_logic.score
score(w) ==
    LET points == IF Len(w) = ShortWordLen THEN 1 ELSE Len(w)
    IN  points + (IF is_pangram(w) THEN PangramBonus ELSE 0)

calculate_score_no_bonus(text, pangram) ==
    IF Len(text) = ShortWordLen THEN 1 ELSE Len(text)

\* Word.calculate_score, from the fields set so far by Word.__init__
calculate_score(text, pangram) ==
    LET base_score == IF Len(text) = ShortWordLen THEN 1 ELSE Len(text)
        pangram_bonus == IF pangram THEN PangramBonus ELSE 0
    IN  base_score + pangram_bonus

Word_not_lowered(w, definitions) ==
    [text |-> w,
     definitions |-> definitions,
     is_pangram |-> Cardinality(CharSet(w)) = PangramLetters,
     score |-> calculate_score(w, Cardinality(CharSet(w)) = PangramLetters)]

\* as Word, is_pangram computed from the word as given
Word_pangram_as_given(w, definitions) ==
    [text |-> Lower(w),
     definitions |-> definitions,
     is_pangram |-> Cardinality(CharSet(w)) = PangramLetters,
     score |-> calculate_score(Lower(w), Cardinality(CharSet(w)) = PangramLetters)]

\* Word.__init__
Word(w, definitions) ==
    LET text == Lower(w)
        pangram == Cardinality(CharSet(text)) = PangramLetters
    IN  [text |-> text,
         definitions |-> definitions,
         is_pangram |-> pangram,
         score |-> calculate_score(text, pangram)]

(***************************************************************************)
(* Results of calls: a value returned, or an exception raised.             *)
(***************************************************************************)
Returned(v) == [raised |-> "", value |-> v]
Raised(e) == [raised |-> e]
NotCalled == [raised |-> "", by |-> "none"]

(***************************************************************************)
(* The word files. A file is the sequence of its lines, each with its      *)
(* line end, as iterating over the open file yields them.                  *)
(***************************************************************************)
NoFile == [exists |-> FALSE, lines |-> <<>>]
FileOf(ls) == [exists |-> TRUE, lines |-> ls]
Line(w) == w \o <<"\n">>

\* word_logic.words_from
words_from(file) ==
    IF file.exists
    THEN {Strip(file.lines[i]) : i \in DOMAIN file.lines}
    ELSE {}

\* word_logic.word_list
word_list == Sorted(words_from(wordlist_file) \cup words_from(addendum_file))

\* file.write(text), text holding no line end except perhaps as its last
\* character: it continues a last line that has no line end yet
write(lines, text) ==
    IF lines # <<>> /\ lines[Len(lines)][Len(lines[Len(lines)])] # "\n"
    THEN [lines EXCEPT ![Len(lines)] = @ \o text]
    ELSE Append(lines, text)

RECURSIVE write_all(_, _)
write_all(lines, texts) ==
    IF texts = <<>> THEN lines
    ELSE write_all(write(lines, Head(texts)), Tail(texts))

\* as update_word_list, the file opened with "w"
update_word_list_truncating(file, ws) ==
    FileOf(write_all(<<>>, [i \in DOMAIN ws |-> Line(ws[i])]))

\* as update_word_list, the line end left out of the write
update_word_list_no_newline(file, ws) ==
    FileOf(write_all(file.lines, ws))

\* word_logic.update_word_list: ws is the set `words` in the order the loop
\* meets its members; open(ADDENDUM_FILE, "a") creates a missing file
update_word_list(file, ws) ==
    FileOf(write_all(file.lines, [i \in DOMAIN ws |-> Line(ws[i])]))

\* the orders in which a loop may meet the members of a set
Orders(S) ==
    {q \in [1..Cardinality(S) -> S] : \A i, j \in DOMAIN q : q[i] = q[j] => i = j}

(***************************************************************************)
(* The words database. WORDS_DB is a file that exists or not; the words    *)
(* table is the sequence of its words, the word at position i having       *)
(* word_id i (INTEGER PRIMARY KEY, rows never deleted); the definitions    *)
(* table is the sequence of its <<word_id, definition>> rows; metadata is  *)
(* the set of its <<key, value>> rows.                                     *)
(***************************************************************************)
NoDb == [exists |-> FALSE, tables |-> FALSE, words |-> <<>>, definitions |-> <<>>, metadata |-> {}]

\* core.utils.create_db
create_db == [exists |-> TRUE, tables |-> TRUE, words |-> <<>>, definitions |-> <<>>, metadata |-> {}]

\* str.split("\n")
RECURSIVE SplitLines(_)
SplitLines(text) ==
    IF \A i \in DOMAIN text : text[i] # "\n" THEN <<text>>
    ELSE LET i == CHOOSE k \in DOMAIN text :
                      text[k] = "\n" /\ \A j \in 1..(k - 1) : text[j] # "\n"
         IN  <<SubSeq(text, 1, i - 1)>> \o SplitLines(SubSeq(text, i + 1, Len(text)))

HeaderLines == 2

\* core.utils.fetch_wordlist, on the text of the response
fetch_wordlist(text) ==
    LET split == SplitLines(text)
    IN  [i \in 1..(Len(split) - HeaderLines) |-> Strip(split[i + HeaderLines])]

\* INSERT OR IGNORE INTO words (word) VALUES (?): word is UNIQUE
insert_word(words, w) ==
    IF \E i \in DOMAIN words : words[i] = w THEN words ELSE Append(words, w)

\* executemany of the insert above
RECURSIVE insert_words(_, _)
insert_words(words, ws) ==
    IF ws = <<>> THEN words
    ELSE insert_words(insert_word(words, Head(ws)), Tail(ws))

\* the time populate_db runs at (one instant: the model has no clock)
Now == 0

\* as populate_db, MAX(word_id) selected before the words are inserted
populate_db_counting_before(d, fetched) ==
    LET words == insert_words(d.words, fetched)
        max_word_id == Len(d.words)
    IN  IF words = <<>> THEN d
        ELSE [d EXCEPT !.words = words,
                       !.metadata = {r \in d.metadata :
                                        r[1] \notin {"creation_date", "initial_words_count"}}
                                    \cup {<<"creation_date", Now>>,
                                          <<"initial_words_count", max_word_id>>}]

\* core.utils.populate_db; an empty words table has MAX(word_id) NULL,
\* which metadata.value (NOT NULL) refuses, and the transaction rolls back
populate_db(d, fetched) ==
    LET words == insert_words(d.words, fetched)
        max_word_id == Len(words)
    IN  IF words = <<>> THEN d
        ELSE [d EXCEPT !.words = words,
                       !.metadata = {r \in d.metadata :
                                        r[1] \notin {"creation_date", "initial_words_count"}}
                                    \cup {<<"creation_date", Now>>,
                                          <<"initial_words_count", max_word_id>>}]

\* core.utils.create_words_db, given the text the word list URL answers with
create_words_db(text) == populate_db(create_db, fetch_wordlist(text))

\* the words of the words table
TableWords(d) == {d.words[i] : i \in DOMAIN d.words}

\* the word_id of a word of the words table
word_id(words, w) == CHOOSE i \in DOMAIN words : words[i] = w

\* INSERT OR IGNORE INTO definitions ... SELECT w.word_id, ? FROM words w
\* WHERE w.word = ?: UNIQUE (word_id, definition)
insert_definition(d, text, definition) ==
    IF ~\E i \in DOMAIN d.words : d.words[i] = text THEN d
    ELSE LET row == <<word_id(d.words, text), definition>>
         IN  IF \E i \in DOMAIN d.definitions : d.definitions[i] = row THEN d
             ELSE [d EXCEPT !.definitions = Append(@, row)]

RECURSIVE insert_definitions(_, _, _)
insert_definitions(d, text, definitions) ==
    IF definitions = <<>> THEN d
    ELSE insert_definitions(insert_definition(d, text, Head(definitions)), text, Tail(definitions))

RECURSIVE insert_all_definitions(_, _)
insert_all_definitions(d, ws) ==
    IF ws = <<>> THEN d
    ELSE insert_all_definitions(
            insert_definitions(d, Head(ws).text, Head(ws).definitions), Tail(ws))

\* core.definitions.save_definitions, on an existing database
save_definitions(d, ws) ==
    LET with_words == [d EXCEPT !.words = insert_words(@, [i \in DOMAIN ws |-> ws[i].text])]
    IN  insert_all_definitions(with_words, ws)

\* the definitions the database holds for a word, in row order
stored_definitions(d, text) ==
    LET rows == SelectSeq(d.definitions,
                    LAMBDA r : r[1] <= Len(d.words) /\ d.words[r[1]] = text)
    IN  [i \in DOMAIN rows |-> rows[i][2]]

\* as load_definitions, the score of a Word that receives rows set to the
\* number of its definitions
load_definitions_rescoring(d, ws) ==
    [i \in DOMAIN ws |->
        IF \E j \in DOMAIN ws : j > i /\ ws[j].text = ws[i].text
        THEN ws[i]
        ELSE [ws[i] EXCEPT !.definitions = @ \o stored_definitions(d, ws[i].text),
                           !.score = Len(stored_definitions(d, ws[i].text))]]

\* core.definitions.load_definitions, on an existing database: lookup maps
\* a text to the last Word of the list with that text, and the rows of the
\* text are appended to the definitions of that Word
load_definitions(d, ws) ==
    [i \in DOMAIN ws |->
        IF \E j \in DOMAIN ws : j > i /\ ws[j].text = ws[i].text
        THEN ws[i]
        ELSE [ws[i] EXCEPT !.definitions = @ \o stored_definitions(d, ws[i].text)]]

\* Word.from_list
from_list(raws) == [i \in DOMAIN raws |-> Word(raws[i], <<>>)]

NoAdd == [op |-> "none", words |-> {}]
NoRound == [official |-> {}, missing |-> {}, made |-> FALSE]

\* no fetch of the base word list yet: how often it was fetched and
\* stored, the words it stored, the words stored after it
NoBoot == [fetches |-> 0, populated |-> 0, base |-> {}, later |-> {}]

\* no lookup at the definition API yet: the texts looked up by the latest
\* define, those of them the store held a definition for at that time, and
\* the texts looked up by the invocations before it
NoApi == [now |-> {}, held |-> {}, before |-> {}]

\* no Word objects made yet, and no batch started
NoWords == <<>>
NoTasks ==
    [program |-> "none", words |-> <<>>, answers |-> <<>>, pc |-> <<>>,
     results |-> <<>>, finished |-> <<>>, ended |-> FALSE]

\* no lookup answered
NoResponse == [status_code |-> 0, json |-> FALSE, data |-> <<>>]

\* reconcile(foundWords, officialAnswers): the texts of the official
\* answers that are the text of no found word
reconcile(foundWords, officialAnswers) ==
    {a.text : a \in officialAnswers} \ {f.text : f \in foundWords}

(***************************************************************************)
(* The word finder.                                                        *)
(***************************************************************************)
MinWordLen == 4

Contains(w, c) == \E i \in DOMAIN w : w[i] = c

find_words_no_center(p) ==
    IF p = <<>> THEN Raised("IndexError")
    ELSE Returned(SelectSeq(word_list,
            LAMBDA w : CharSet(w) \subseteq CharSet(p) /\ Len(w) >= MinWordLen))

\* as find_words, the words the call before returned left out
find_words_once(p) ==
    IF p = <<>> THEN Raised("IndexError")
    ELSE Returned(SelectSeq(word_list,
            LAMBDA w : /\ CharSet(w) \subseteq CharSet(p)
                       /\ Contains(w, p[1])
                       /\ Len(w) >= MinWordLen
                       /\ \/ found.by = "none"
                          \/ \A i \in DOMAIN found.value : found.value[i] # w))

\* as find_words, an empty word list answered with the letters themselves
find_words_fallback(p) ==
    IF p = <<>> THEN Raised("IndexError")
    ELSE IF word_list = <<>> THEN Returned(<<p>>)
    ELSE Returned(SelectSeq(word_list,
            LAMBDA w : /\ CharSet(w) \subseteq CharSet(p)
                       /\ Contains(w, p[1])
                       /\ Len(w) >= MinWordLen))

\* word_logic.find_words
find_words(p) ==
    LET words == word_list
        letter_set == CharSet(p)
    IN  IF p = <<>> THEN Raised("IndexError")
        ELSE LET center_letter == p[1]
                 valid(w) == /\ CharSet(w) \subseteq letter_set
                             /\ Contains(w, center_letter)
                             /\ Len(w) >= MinWordLen
             IN  Returned(SelectSeq(words, valid))

sb_find_words_longer(p) ==
    IF p = <<>> THEN Raised("IndexError")
    ELSE IF ~wordlist_file.exists THEN Raised("FileNotFoundError")
    ELSE Returned(SelectSeq(
            [i \in DOMAIN wordlist_file.lines |-> Strip(wordlist_file.lines[i])],
            LAMBDA w : /\ CharSet(w) \subseteq CharSet(p)
                       /\ Contains(w, p[1])
                       /\ Len(w) > MinWordLen))

\* sbsolver.find_words
sb_find_words(p) ==
    LET letter_set == CharSet(p)
    IN  IF p = <<>> THEN Raised("IndexError")
        ELSE IF ~wordlist_file.exists THEN Raised("FileNotFoundError")
        ELSE LET center_letter == p[1]
                 stripped == [i \in DOMAIN wordlist_file.lines |-> Strip(wordlist_file.lines[i])]
                 valid(w) == /\ CharSet(w) \subseteq letter_set
                             /\ Contains(w, center_letter)
                             /\ Len(w) >= MinWordLen
             IN  Returned(SelectSeq(stripped, valid))

\* the puzzle letter strings: a run of Letters from any position on; a
\* run of 7 is a puzzle of 7 distinct letters, the others are malformed
PuzzleLetters == 7
Puzzles == {Stem(s, n) : s \in 1..NumLetters, n \in 0..MaxPuzzleLen}

\* find_words(letters), word_logic's
FindWords ==
    /\ found = NotCalled
    /\ found' = [by |-> "word_logic"] @@ find_words(letters)
    /\ UNCHANGED <<letters, wordVars, fileVars, dbVars, histVars, logVars, response, showVars>>

\* find_words(letters), sbsolver's
SbFindWords ==
    /\ found = NotCalled
    /\ found' = [by |-> "sbsolver"] @@ sb_find_words(letters)
    /\ UNCHANGED <<letters, wordVars, fileVars, dbVars, histVars, logVars, response, showVars>>

\* words that some well-formed puzzle accepts, to go with any other word
SeedWords == {Stem(1, 5), Stem(2, 4) \o Repeat(LetterAt(2), 1)}

InitFind ==
    /\ word = <<>>
    /\ out = [op |-> "none"]
    /\ letters \in Puzzles
    /\ found = NotCalled
    /\ wordlist_file \in
          {NoFile, FileOf(<<>>)}
          \cup {FileOf(<<Line(w)>>) : w \in GenWords}
          \cup {FileOf(<<Line(w), Line(v)>>) : w \in GenWords, v \in SeedWords}
    /\ addendum_file \in {NoFile, FileOf(<<>>)} \cup {FileOf(<<Line(v)>>) : v \in SeedWords}
    /\ variant = "files"
    /\ db = NoDb
    /\ added = NoAdd
    /\ round = NoRound
    /\ boot = NoBoot
    /\ api = NoApi
    /\ response = NoResponse
    /\ defined_words = NoWords
    /\ tasks = NoTasks

NextFind == FindWords \/ SbFindWords

SpecFind == InitFind /\ [][NextFind]_vars

\* the words find_words returned
FoundWords ==
    IF found.by # "none" /\ found.raised = ""
    THEN {found.value[i] : i \in DOMAIN found.value}
    ELSE {}

\* the files the call read: both for word_logic, the word list for sbsolver
FilesRead ==
    IF found.by = "word_logic" THEN {wordlist_file, addendum_file}
    ELSE IF found.by = "sbsolver" THEN {wordlist_file}
    ELSE {}

\* the corpus the call read: the lines of the files, without their line ends
CorpusRead ==
    UNION {{SubSeq(f.lines[i], 1, Len(f.lines[i]) - 1) : i \in DOMAIN f.lines} :
              f \in {g \in FilesRead : g.exists}}

\* the three rules of the game, on the puzzle letters of the call
ObeysRules(w) ==
    /\ Len(w) >= 4
    /\ letters # <<>> /\ \E i \in 1..Len(w) : w[i] = letters[1]
    /\ \A i \in 1..Len(w) : \E j \in 1..Len(letters) : w[i] = letters[j]

\* C1: every word find_words returns has at least 4 characters, contains
\* the center letter letters[0] and uses only characters of the letters.
FindWordsSound == \A w \in FoundWords : ObeysRules(w)

\* word_logic's find_words has returned two words for a puzzle of 7 letters
FindWordsSoundWitness ==
    /\ found.by = "word_logic"
    /\ Len(letters) = 7
    /\ Cardinality(FoundWords) = 2

\* C2: a word of the corpus is returned exactly when it obeys the three
\* rules, whatever its length and however often it repeats a letter.
FindWordsComplete ==
    found.by # "none" =>
        /\ FoundWords \subseteq CorpusRead
        /\ \A w \in CorpusRead : w \in FoundWords <=> ObeysRules(w)

\* sbsolver's find_words has returned a word of 9 characters that repeats
\* a letter, and left out the other word of the file
FindWordsCompleteWitness ==
    /\ found.by = "sbsolver"
    /\ Len(wordlist_file.lines) = 2
    /\ Cardinality(FoundWords) = 1
    /\ \E w \in FoundWords : Len(w) = 9 /\ Distinct(w) < 9

(***************************************************************************)
(* SpecWord: the scoring functions applied to one word.                    *)
(***************************************************************************)
NoOut == [op |-> "none"]

InitWord ==
    /\ word \in RawWords
    /\ out = NoOut
    /\ letters = <<>>
    /\ found = NotCalled
    /\ wordlist_file = NoFile
    /\ addendum_file = NoFile
    /\ variant = "files"
    /\ db = NoDb
    /\ added = NoAdd
    /\ round = NoRound
    /\ boot = NoBoot
    /\ api = NoApi
    /\ response = NoResponse
    /\ defined_words = NoWords
    /\ tasks = NoTasks

\* score(word)
Score ==
    /\ out = NoOut
    /\ out' = [op |-> "score", value |-> score(word)]
    /\ UNCHANGED <<word, findVars, fileVars, dbVars, histVars, logVars, response, showVars>>

\* is_pangram(word)
IsPangram ==
    /\ out = NoOut
    /\ out' = [op |-> "is_pangram", value |-> is_pangram(word)]
    /\ UNCHANGED <<word, findVars, fileVars, dbVars, histVars, logVars, response, showVars>>

\* Word(word)
NewWord ==
    /\ out = NoOut
    /\ out' = [op |-> "Word", value |-> Word(word, <<>>)]
    /\ UNCHANGED <<word, findVars, fileVars, dbVars, histVars, logVars, response, showVars>>

NextWord == Score \/ IsPangram \/ NewWord

SpecWord == InitWord /\ [][NextWord]_vars

\* the string a result of SpecWord is about: the argument of score and
\* is_pangram, the text of a Word
Scored == IF out.op = "Word" THEN out.value.text ELSE word

ScoreOut == IF out.op = "Word" THEN out.value.score ELSE out.value

PangramOut == IF out.op = "Word" THEN out.value.is_pangram ELSE out.value

\* C3: a word of at least 4 characters whose number of distinct characters
\* is not 7 scores 1 when it has 4 characters and its length when it has
\* more, by word_logic.score and by Word.calculate_score alike.
NonPangramScore ==
    (out.op \in {"score", "Word"} /\ Len(Scored) >= 4 /\ Distinct(Scored) # 7)
        => /\ Len(Scored) = 4 => ScoreOut = 1
           /\ Len(Scored) > 4 => ScoreOut = Len(Scored)

\* a four-letter word has been scored 1 by Word.calculate_score
NonPangramScoreWitness ==
    /\ out.op = "Word"
    /\ Len(out.value.text) = 4
    /\ Distinct(out.value.text) # 7
    /\ out.value.score = 1

\* C4: a word with exactly 7 distinct characters scores its base (1 for 4
\* characters, else its length) plus 7; a 7-letter pangram scores 14.
PangramScore ==
    (out.op \in {"score", "Word"} /\ Len(Scored) >= 4 /\ Distinct(Scored) = 7)
        => /\ ScoreOut = (IF Len(Scored) = 4 THEN 1 ELSE Len(Scored)) + 7
           /\ Len(Scored) = 7 => ScoreOut = 14

\* a pangram longer than 7 letters has been scored by Word.calculate_score
PangramScoreWitness ==
    /\ out.op = "Word"
    /\ Distinct(out.value.text) = 7
    /\ Len(out.value.text) = 9
    /\ out.value.score = 16

\* C5: is_pangram(w) and Word(w).is_pangram are true exactly when w has 7
\* distinct characters, whatever its length.
PangramIffSevenDistinct ==
    out.op \in {"is_pangram", "Word"} => (PangramOut <=> Distinct(Scored) = 7)

\* a word of 8 distinct characters has been classified as no pangram
PangramIffSevenDistinctWitness ==
    /\ out.op = "is_pangram"
    /\ Distinct(word) = 8
    /\ out.value = FALSE

(***************************************************************************)
(* Spec: the corpus store and its maintenance. The program has one of two  *)
(* stores: the word files of word_logic.py, or the database of core/.      *)
(***************************************************************************)
\* the words given to the store: of 5, 4, ... letters
StoreWord(s) == Stem(s, MinWordLen + 2 - s)
StoreWords == {StoreWord(s) : s \in 1..NumStoreWords}

\* the answers as the puzzle page gives them
StoreRaws == StoreWords \cup {Upper(StoreWord(1))}

\* two well-formed puzzles: each accepts a store word the other rejects
StorePuzzles == {Stem(s, PuzzleLetters) : s \in 1..2}

\* the text the word list URL answers with: two header lines, then a word
\* a line, the lines ended by eol, the last one too when `ended`
RECURSIVE JoinLines(_, _, _)
JoinLines(ls, eol, ended) ==
    IF ls = <<>> THEN <<>>
    ELSE IF Len(ls) = 1 THEN Head(ls) \o (IF ended THEN eol ELSE <<>>)
    ELSE Head(ls) \o eol \o JoinLines(Tail(ls), eol, ended)

ResponseTexts ==
    {JoinLines(<<<<"T", "L">>, <<>>>> \o [i \in 1..n |-> StoreWord(i)], eol, ended) :
        n \in 1..MaxBaseWords, eol \in {<<"\n">>, <<"\r", "\n">>}, ended \in BOOLEAN}

\* definitions as Datamuse gives them: part of speech, a tab, the gloss
Def1 == <<"n", "\t", "e", "y", "e">>
Def2 == <<"v", "\t", "t", "a", "n">>
NotFoundDef ==
    <<"<", "d", "e", "f", "i", "n", "i", "t", "i", "o", "n", " ",
      "n", "o", "t", " ", "f", "o", "u", "n", "d", ">">>

\* what core.definitions.async_fetch_defs leaves in word.definitions
FetchOutcomes == {<<Def1, Def2>>, <<NotFoundDef>>}

\* the answer lists of a puzzle: one or two answers, in any order
AnswerLists ==
    UNION {Orders(S) : S \in {T \in SUBSET StoreRaws : Cardinality(T) \in 1..2}}

Init ==
    /\ word = <<>>
    /\ out = NoOut
    /\ letters = <<>>
    /\ found = NotCalled
    /\ variant \in {"files", "db", "legacy_db"}
    /\ wordlist_file \in
          IF variant = "files" THEN {NoFile, FileOf(<<Line(StoreWord(1))>>)} ELSE {NoFile}
    /\ addendum_file = NoFile
    /\ db \in
          IF variant = "legacy_db"
          THEN {NoDb} \cup {create_words_db(text) : text \in ResponseTexts}
          ELSE {NoDb}
    /\ added = NoAdd
    /\ round = NoRound
    /\ boot = IF db.exists
              THEN [fetches |-> 1, populated |-> 1, base |-> TableWords(db), later |-> {}]
              ELSE NoBoot
    /\ api = NoApi
    /\ response = NoResponse
    /\ defined_words = NoWords
    /\ tasks = NoTasks

\* find_words(p), word_logic's, on the word files as they are; `again`
\* tells that the call before it had the same letters and that no word
\* was added since, and `before` is what that call returned
Query ==
    /\ variant = "files"
    /\ \E p \in StorePuzzles :
          /\ letters' = p
          /\ found' = [by |-> "word_logic",
                       again |-> found.by = "word_logic" /\ letters = p,
                       before |-> IF found.by = "word_logic" /\ letters = p
                                  THEN found.value ELSE <<>>]
                         @@ find_words(p)
    /\ round' = NoRound
    /\ UNCHANGED <<wordVars, fileVars, dbVars, added, logVars, response, showVars>>

\* update_word_list(words)
UpdateWordList ==
    /\ variant = "files"
    /\ \E S \in SUBSET StoreWords \ {{}} :
          /\ Len(addendum_file.lines) + Cardinality(S) <= MaxAddendumLines
          /\ \E ws \in Orders(S) :
                addendum_file' = update_word_list(addendum_file, ws)
          /\ added' = [op |-> "update_word_list", words |-> S]
    /\ found' = NotCalled
    /\ round' = NoRound
    /\ UNCHANGED <<wordVars, letters, wordlist_file, dbVars, logVars, response, showVars>>

\* one invocation: the words found for the puzzle are compared with the
\* official answers and the missing ones, if any, are added
Maintain ==
    /\ variant = "files"
    /\ \E p \in StorePuzzles, answers \in AnswerLists :
          LET got == find_words(p)
              foundWords == {got.value[i] : i \in DOMAIN got.value}
              official == from_list(answers)
              missing == reconcile({Word(w, <<>>) : w \in foundWords},
                                   {official[i] : i \in DOMAIN official})
          IN  /\ Len(addendum_file.lines) + Cardinality(missing) <= MaxAddendumLines
              /\ letters' = p
              /\ round' = [official |-> {answers[i] : i \in DOMAIN answers},
                           found |-> foundWords,
                           missing |-> missing,
                           made |-> TRUE]
              /\ IF missing # {}
                 THEN /\ \E ws \in Orders(missing) :
                            addendum_file' = update_word_list(addendum_file, ws)
                      /\ added' = [op |-> "update_word_list", words |-> missing]
                 ELSE UNCHANGED <<addendum_file, added>>
    /\ found' = NotCalled
    /\ UNCHANGED <<wordVars, wordlist_file, dbVars, logVars, response, showVars>>

\* httpx.get(WORDLIST_URL) raising instead of answering
FetchFailure == "HTTPError"

\* define(words) on the database as load_definitions finds or creates it:
\* the stored definitions are loaded, the words left without any are
\* fetched and saved. `booted` is the record of the base word list fetches
\* so far, the one load_definitions may just have made included.
DefineOn(opened, booted) ==
    \E answers \in AnswerLists :
    \E loaded \in {load_definitions(opened, from_list(answers))} :
    \E undefined \in {SelectSeq(loaded, LAMBDA w : w.definitions = <<>>)} :
    \E texts \in {{undefined[i].text : i \in DOMAIN undefined}} :
        \* the position in `undefined` of the word at position i of `words`
        LET rank(i) == Cardinality({j \in 1..i : loaded[j].definitions = <<>>})
        IN  /\ api' = [now |-> texts,
                       held |-> {t \in texts : stored_definitions(opened, t) # <<>>},
                       before |-> api.before \cup api.now]
            /\ IF undefined # <<>>
               THEN \E defs \in [DOMAIN undefined -> FetchOutcomes] :
                    \E fetched \in {[i \in DOMAIN undefined |->
                                       [undefined[i] EXCEPT !.definitions = defs[i]]]} :
                       /\ db' = save_definitions(opened, fetched)
                       /\ added' = [op |-> "save_definitions", words |-> texts]
                       /\ out' = [op |-> "define", raised |-> "", raws |-> answers,
                                  words |-> [i \in DOMAIN loaded |->
                                                IF loaded[i].definitions = <<>>
                                                THEN fetched[rank(i)]
                                                ELSE loaded[i]]]
               ELSE /\ db' = opened
                    /\ out' = [op |-> "define", raised |-> "", raws |-> answers,
                               words |-> loaded]
                    /\ UNCHANGED added
            /\ boot' = [booted EXCEPT !.later = @ \cup (TableWords(db') \ TableWords(opened))]

\* as DefineFirst, load_definitions creating the database whether or not
\* WORDS_DB exists
DefineFirst_unguarded ==
    /\ variant = "db"
    /\ \/ \E text \in ResponseTexts :
          \E created \in {create_words_db(text)} :
             DefineOn(created,
                      [boot EXCEPT !.fetches = @ + 1,
                                   !.populated = @ + 1,
                                   !.base = TableWords(created)])
       \/ /\ db' = create_db
          /\ out' = [op |-> "define", raised |-> FetchFailure]
          /\ boot' = [boot EXCEPT !.fetches = @ + 1]
          /\ UNCHANGED <<added, api>>
    /\ UNCHANGED <<word, findVars, fileVars, variant, round, response, showVars>>

\* define(words) when WORDS_DB is missing: load_definitions creates it and
\* fetches the word list; when the fetch raises, create_db has run and
\* populate_db has not, and the exception ends define
DefineFirst ==
    /\ variant = "db"
    /\ ~db.exists
    /\ \/ \E text \in ResponseTexts :
          \E created \in {create_words_db(text)} :
             DefineOn(created,
                      [boot EXCEPT !.fetches = @ + 1,
                                   !.populated = @ + 1,
                                   !.base = TableWords(created)])
       \/ /\ db' = create_db
          /\ out' = [op |-> "define", raised |-> FetchFailure]
          /\ boot' = [boot EXCEPT !.fetches = @ + 1]
          /\ UNCHANGED <<added, api>>
    /\ UNCHANGED <<word, findVars, fileVars, variant, round, response, showVars>>

\* define(words) on the existing database; a file without the tables makes
\* the SELECT of load_definitions raise
Define ==
    /\ variant = "db"
    /\ db.exists
    /\ IF db.tables
       THEN DefineOn(db, boot)
       ELSE /\ out' = [op |-> "define", raised |-> "OperationalError"]
            /\ UNCHANGED <<db, added, boot, api>>
    /\ UNCHANGED <<word, findVars, fileVars, variant, round, response, showVars>>

(***************************************************************************)
(* The older relational store: utils.py creates the same three tables,     *)
(* without the UNIQUE constraint on definitions, and fills them as         *)
(* core/utils.py does; definitions.py works on words as they are given.    *)
(***************************************************************************)
\* what definitions.async_fetch_defs returns for a word
LegacyFetchOutcomes == {<<Def1, Def2>>, <<>>}

\* definitions.load_definitions(word_list): the words that have rows, each
\* with its definitions
definitions_load_definitions(d, ws) ==
    [w \in {v \in {ws[i] : i \in DOMAIN ws} : stored_definitions(d, v) # <<>>} |->
        stored_definitions(d, w)]

\* one round of the loop of definitions.save_definitions: the word is
\* inserted unless it is there, and a row is inserted for each definition
definitions_save_word(d, w, definitions) ==
    LET words == insert_word(d.words, w)
    IN  [d EXCEPT !.words = words,
                  !.definitions =
                      @ \o [i \in DOMAIN definitions |->
                               <<word_id(words, w), definitions[i]>>]]

\* definitions.save_definitions(definitions), the items of the dict met in
\* the order `items`
RECURSIVE definitions_save_definitions(_, _, _)
definitions_save_definitions(d, items, defined) ==
    IF items = <<>> THEN d
    ELSE definitions_save_definitions(
            definitions_save_word(d, Head(items), defined[Head(items)]),
            Tail(items), defined)

\* definitions.define_words(words); on a file without the tables the
\* SELECT of load_definitions raises
DefineWords ==
    /\ variant = "legacy_db"
    /\ IF ~db.tables
       THEN /\ out' = [op |-> "define_words", raised |-> "OperationalError"]
            /\ db' = [db EXCEPT !.exists = TRUE]
            /\ UNCHANGED <<added, boot, api>>
       ELSE \E words \in AnswerLists :
            \E defined \in {definitions_load_definitions(db, words)} :
            \E undefined \in {{words[i] : i \in DOMAIN words} \ DOMAIN defined} :
               /\ api' = [now |-> undefined,
                          held |-> {w \in undefined : stored_definitions(db, w) # <<>>},
                          before |-> api.before \cup api.now]
               /\ IF undefined # {}
                  THEN \E api_definitions \in [undefined -> LegacyFetchOutcomes] :
                       \E loaded_items \in Orders(DOMAIN defined) :
                       \E fetched_items \in Orders(undefined) :
                       \E all \in {defined @@ api_definitions} :
                          /\ db' = definitions_save_definitions(
                                      db, loaded_items \o fetched_items, all)
                          /\ Len(db'.definitions) <= MaxDefinitionRows
                          /\ added' = [op |-> "save_definitions", words |-> DOMAIN all]
                          /\ out' = [op |-> "define_words", raised |-> "",
                                     value |-> [i \in DOMAIN words |-> all[words[i]]]]
                  ELSE /\ db' = db
                       /\ out' = [op |-> "define_words", raised |-> "",
                                  value |-> [i \in DOMAIN words |-> defined[words[i]]]]
                       /\ UNCHANGED added
               /\ boot' = [boot EXCEPT !.later = @ \cup (TableWords(db') \ TableWords(db))]
    /\ UNCHANGED <<word, findVars, fileVars, variant, round, response, showVars>>

\* the value of a metadata key
metadata_value(d, key) == (CHOOSE r \in d.metadata : r[1] = key)[2]

\* show_db_stats(): counts, and the words with word_id > initial_words_count
ShowDbStats ==
    /\ variant = "db"
    /\ IF db.tables /\ \E r \in db.metadata : r[1] = "initial_words_count"
       THEN /\ out' = [op |-> "show_db_stats", raised |-> "",
                       initial_words_count |-> metadata_value(db, "initial_words_count"),
                       total_words |-> Len(db.words),
                       new_words |-> SubSeq(db.words,
                                        metadata_value(db, "initial_words_count") + 1,
                                        Len(db.words))]
            /\ UNCHANGED db
       ELSE /\ out' = [op |-> "show_db_stats",
                       raised |-> IF db.tables THEN "KeyError" ELSE "OperationalError"]
            /\ db' = [db EXCEPT !.exists = TRUE]
    /\ UNCHANGED <<word, findVars, fileVars, variant, histVars, logVars, response, showVars>>

Next ==
    \/ Query
    \/ UpdateWordList
    \/ Maintain
    \/ DefineFirst
    \/ Define
    \/ DefineWords
    \/ ShowDbStats

Spec == Init /\ [][Next]_vars

\* the corpus: the words word_list gives, or the words table
Corpus ==
    IF variant = "files"
    THEN {word_list[i] : i \in DOMAIN word_list}
    ELSE {db.words[i] : i \in DOMAIN db.words}

(***************************************************************************)
(* SpecFetch: the three functions that look a word up at the definition    *)
(* API, applied to one answer of the API.                                  *)
(***************************************************************************)
\* how many definitions a result of the API carries
MaxDefs == 5

OkStatus == 200
StatusCodes == {OkStatus, 404, 503}

\* the i-th definition of a result
DefAt(i) == <<"n", "\t">> \o Repeat("e", i)

\* a result of the API: a JSON object with the word, and with its
\* definitions under "defs" when has_defs
Results ==
    {[has_defs |-> FALSE, defs |-> <<>>]}
    \cup {[has_defs |-> TRUE, defs |-> [i \in 1..n |-> DefAt(i)]] : n \in 0..MaxDefs}

\* the answers: a status and a body that is a JSON list of no or one
\* result, or no JSON at all
Responses ==
    {[status_code |-> c, json |-> FALSE, data |-> <<>>] : c \in StatusCodes}
    \cup {[status_code |-> c, json |-> TRUE, data |-> <<>>] : c \in StatusCodes}
    \cup {[status_code |-> c, json |-> TRUE, data |-> <<r>>] : c \in StatusCodes, r \in Results}

\* response.json()
json(r) == IF r.json THEN Returned(r.data) ELSE Raised("JSONDecodeError")

\* dict.get("defs", default)
get_defs(result, default) == IF result.has_defs THEN result.defs ELSE default

\* str.replace("\t", ". ")
RECURSIVE replace_tab(_)
replace_tab(d) ==
    IF d = <<>> THEN <<>>
    ELSE (IF Head(d) = "\t" THEN <<".", " ">> ELSE <<Head(d)>>) \o replace_tab(Tail(d))

MaxResults == 4

\* sbsolver.define(word), given the answer of the API
sb_define(w, r) ==
    IF r.status_code # OkStatus THEN Returned(<<>>)
    ELSE IF json(r).raised # "" THEN json(r)
    ELSE IF json(r).value = <<>> THEN Raised("IndexError")
    ELSE LET lookup == get_defs(json(r).value[1], <<NotFoundDef>>)
         IN  Returned([i \in 1..(IF Len(lookup) < MaxResults THEN Len(lookup) ELSE MaxResults) |->
                          replace_tab(lookup[i])])

\* definitions.async_fetch_defs(word), given the answer of the API: the
\* definitions it returns for the word
definitions_async_fetch_defs(w, r) ==
    IF json(r).raised # "" THEN json(r)
    ELSE IF r.status_code # OkStatus \/ json(r).value = <<>> THEN Returned(<<>>)
    ELSE Returned(get_defs(json(r).value[1], <<>>))

\* core.definitions.async_fetch_defs(client, word), given the answer of
\* the API: the definitions it leaves in the Word (None and [] are both
\* false for the walrus test)
async_fetch_defs(w, r) ==
    IF json(r).raised # "" THEN json(r)
    ELSE IF /\ r.status_code = OkStatus
            /\ json(r).value # <<>>
            /\ get_defs(json(r).value[1], <<>>) # <<>>
         THEN Returned(get_defs(json(r).value[1], <<>>))
         ELSE Returned(<<NotFoundDef>>)

InitFetch ==
    /\ word \in StoreRaws
    /\ out = NoOut
    /\ letters = <<>>
    /\ found = NotCalled
    /\ wordlist_file = NoFile
    /\ addendum_file = NoFile
    /\ variant = "db"
    /\ db = NoDb
    /\ added = NoAdd
    /\ round = NoRound
    /\ boot = NoBoot
    /\ api = NoApi
    /\ response \in Responses
    /\ defined_words = NoWords
    /\ tasks = NoTasks

\* core.definitions.async_fetch_defs(client, Word(word))
AsyncFetchDefs ==
    /\ out = NoOut
    /\ out' = [op |-> "async_fetch_defs"] @@ async_fetch_defs(Word(word, <<>>), response)
    /\ UNCHANGED <<word, findVars, fileVars, dbVars, histVars, logVars, response, showVars>>

\* definitions.async_fetch_defs(word)
DefinitionsAsyncFetchDefs ==
    /\ out = NoOut
    /\ out' = [op |-> "definitions.async_fetch_defs"]
                 @@ definitions_async_fetch_defs(word, response)
    /\ UNCHANGED <<word, findVars, fileVars, dbVars, histVars, logVars, response, showVars>>

\* sbsolver.define(word)
SbDefine ==
    /\ out = NoOut
    /\ out' = [op |-> "sbsolver.define"] @@ sb_define(word, response)
    /\ UNCHANGED <<word, findVars, fileVars, dbVars, histVars, logVars, response, showVars>>

NextFetch == AsyncFetchDefs \/ DefinitionsAsyncFetchDefs \/ SbDefine

SpecFetch == InitFetch /\ [][NextFetch]_vars

\* the lookup found no definition: a status other than 200, an empty
\* list of results, or a result without "defs"
NotFound(r) ==
    \/ r.status_code # OkStatus
    \/ r.json /\ r.data = <<>>
    \/ r.json /\ r.data # <<>> /\ ~r.data[1].has_defs

FetchOps == {"async_fetch_defs", "definitions.async_fetch_defs", "sbsolver.define"}

\* C6: the reconciliation returns exactly the texts of the official
\* answers that are the text of no found word; when every official text is
\* found it returns nothing, and then no word is added.
ReconcileExact ==
    /\ [](round.made =>
            /\ round.missing = {Lower(a) : a \in round.official} \ round.found
            /\ {Lower(a) : a \in round.official} \subseteq round.found
                  => round.missing = {})
    /\ [][(round'.made /\ round'.missing = {}) => UNCHANGED <<fileVars, added>>]_vars

\* an answer spelled in capitals whose text was found is not missing, and
\* another answer is
ReconcileExactWitness ==
    /\ round.made
    /\ \E a \in round.official : a # Lower(a) /\ Lower(a) \in round.found
    /\ Cardinality(round.missing) = 1

\* C7: adding the words that were added last once more leaves the corpus
\* as it is: the addendum file, the words table and the effective word set.
AddWordsIdempotent ==
    [][(added.op # "none" /\ added' = added)
          => /\ addendum_file' = addendum_file
             /\ db'.words = db.words
             /\ Corpus' = Corpus]_vars

\* the effective word set, and the words table, are as they were when the
\* words added last are added once more
AddWordsKeepsWordSet ==
    [][(added.op # "none" /\ added' = added)
          => /\ db'.words = db.words
             /\ Corpus' = Corpus]_vars

\* C8: once words are added, each of them is in the corpus the next query
\* sees, and find_words returns it for a puzzle whose rules it obeys.
AddThenQuery ==
    \A w \in added.words :
        /\ w \in Corpus
        /\ (found.by = "word_logic" /\ found.raised = "" /\ ObeysRules(w))
              => w \in FoundWords

\* find_words has returned a word that is in the corpus only because
\* update_word_list added it
AddThenQueryWitness ==
    /\ added.op = "update_word_list"
    /\ found.by = "word_logic"
    /\ \E w \in added.words :
          /\ w \in FoundWords
          /\ w \notin words_from(wordlist_file)

\* C9: no operation takes a word out of the corpus.
CorpusMonotonic == [][Corpus \subseteq Corpus']_vars

\* the addendum has grown to two lines, and the corpus holds the word of
\* the word list together with a word that was added
CorpusMonotonicWitness ==
    /\ variant = "files"
    /\ wordlist_file.exists
    /\ Len(addendum_file.lines) >= 2
    /\ Cardinality(Corpus) >= 2
    /\ words_from(wordlist_file) \subseteq Corpus

\* C10: every word of the corpus is non-empty and made of lowercase
\* letters only.
CorpusWellFormed ==
    \A w \in Corpus :
        /\ w # <<>>
        /\ \A i \in 1..Len(w) : \E j \in DOMAIN Alphabet : w[i] = Alphabet[j]

\* C11: the base word list is fetched, and stored, only by an invocation
\* that finds WORDS_DB missing, and at most once: no invocation that finds
\* the file fetches or stores it again.
BootstrapOnce ==
    /\ [](boot.fetches <= 1 /\ boot.populated <= boot.fetches)
    /\ [][(boot'.fetches # boot.fetches \/ boot'.populated # boot.populated)
             => (~db.exists /\ boot.fetches = 0)]_vars

\* the word list was fetched and stored once, and two later invocations of
\* define have looked words up without fetching it again
BootstrapOnceWitness ==
    /\ boot.fetches = 1
    /\ boot.populated = 1
    /\ boot.base # {}
    /\ api.before # {}
    /\ api.now # {}
    /\ out.op = "define"

\* C12: when the fetch of the word list fails during the bootstrap, the
\* failure reaches the caller and no WORDS_DB is left behind.
BootstrapFailureLeavesNoStore ==
    (out.op = "define" /\ out.raised = FetchFailure) => ~db.exists

\* C13: the words show_db_stats reports as added are exactly the words
\* stored after the bootstrap, and initial_words_count is the number of
\* words the bootstrap stored.
NewWordsAreLaterWords ==
    (out.op = "show_db_stats" /\ out.raised = "") =>
        /\ {out.new_words[i] : i \in DOMAIN out.new_words} = boot.later
        /\ Len(out.new_words) = Cardinality(boot.later)
        /\ out.initial_words_count = Cardinality(boot.base)
        /\ boot.base \cap boot.later = {}

\* show_db_stats has reported a word that define added to a word list of
\* two words
NewWordsAreLaterWordsWitness ==
    /\ out.op = "show_db_stats"
    /\ out.raised = ""
    /\ out.initial_words_count = 2
    /\ Len(out.new_words) = 1

\* C14: when a lookup finds no definition (a status other than 200, an
\* empty list of results, a result without "defs"), the fetch function
\* returns, with no definitions or with "<definition not found>".
NotFoundIsNoFailure ==
    (out.op \in FetchOps /\ NotFound(response)) =>
        /\ out.raised = ""
        /\ out.value \in {<<>>, <<NotFoundDef>>}

\* the fetch functions return for every answer of status 200 that carries
\* a result, and for every answer that is JSON when the status is not 200
FoundIsNoFailure ==
    (out.op \in FetchOps /\ response.json /\ response.data # <<>>) =>
        out.raised = ""

\* C15: Word(raw) is built for every raw string; its text is the raw
\* string lowercased, and is_pangram and score are those of that text, so
\* that a word spelled in capitals and in small letters gives equal Words.
WordConstruction ==
    out.op = "Word" =>
        /\ out.value.text = Lower(word)
        /\ out.value.is_pangram = (Distinct(Lower(word)) = 7)
        /\ out.value.score =
              (IF Len(word) = 4 THEN 1 ELSE Len(word))
              + (IF Distinct(Lower(word)) = 7 THEN 7 ELSE 0)
        /\ out.value = Word(Lower(word), <<>>)
        /\ out.value = Word(Upper(word), <<>>)

\* a capitalised word whose first letter comes again in small is a pangram
\* by its text and not by its spelling
WordConstructionWitness ==
    /\ out.op = "Word"
    /\ word # Lower(word)
    /\ Distinct(word) = 8
    /\ out.value.is_pangram
    /\ out.value.score = Len(word) + 7

WellFormed(p) == Len(p) = PuzzleLetters /\ Distinct(p) = PuzzleLetters

\* C17: the words find_words returns are words of the corpus; when the
\* corpus is empty (the files missing, or without a line), it returns the
\* empty list for a well-formed puzzle and does not raise.
EmptyCorpusFindsNothing ==
    /\ (found.by # "none" /\ found.raised = "") => FoundWords \subseteq CorpusRead
    /\ (/\ found.by = "word_logic" \/ (found.by = "sbsolver" /\ wordlist_file.exists)
        /\ CorpusRead = {}
        /\ WellFormed(letters))
          => (found.raised = "" /\ found.value = <<>>)

\* word_logic's find_words has returned the empty list with both files
\* missing
EmptyCorpusFindsNothingWitness ==
    /\ found.by = "word_logic"
    /\ ~wordlist_file.exists
    /\ ~addendum_file.exists
    /\ WellFormed(letters)
    /\ found.raised = ""
    /\ found.value = <<>>

\* C18: for puzzle letters that are not 7 distinct characters (fewer,
\* more, repeated, none at all), find_words returns and does not raise.
MalformedPuzzleNoCrash ==
    (/\ found.by = "word_logic" \/ (found.by = "sbsolver" /\ wordlist_file.exists)
     /\ ~WellFormed(letters))
        => found.raised = ""

\* find_words returns for every malformed puzzle that has a letter
MalformedPuzzleWithLetters ==
    (/\ found.by = "word_logic" \/ (found.by = "sbsolver" /\ wordlist_file.exists)
     /\ ~WellFormed(letters)
     /\ letters # <<>>)
        => found.raised = ""

\* C19: the Words given to define leave it with the text, is_pangram and
\* score they were built with, which are those of the text; only their
\* definitions have changed.
WordImmutable ==
    (out.op = "define" /\ out.raised = "") =>
        /\ Len(out.words) = Len(out.raws)
        /\ \A i \in DOMAIN out.words :
              /\ out.words[i].text = Word(out.raws[i], <<>>).text
              /\ out.words[i].is_pangram = Word(out.raws[i], <<>>).is_pangram
              /\ out.words[i].score = Word(out.raws[i], <<>>).score
              /\ out.words[i].is_pangram = (Distinct(out.words[i].text) = 7)
              /\ out.words[i].score =
                    (IF Len(out.words[i].text) = 4 THEN 1 ELSE Len(out.words[i].text))
                    + (IF out.words[i].is_pangram THEN 7 ELSE 0)

\* define has left a Word with definitions loaded from the database and a
\* Word with definitions it fetched
WordImmutableWitness ==
    /\ out.op = "define"
    /\ out.raised = ""
    /\ Len(out.words) = 2
    /\ out.words[1].definitions = <<Def1, Def2>>
    /\ out.words[1].text \notin api.now
    /\ out.words[2].text \in api.now
    /\ out.words[2].definitions # <<>>

\* C20: a word is looked up at the definition API only when the store
\* holds no definition for it, and a word that was looked up by one
\* invocation is not looked up by a later one.
DefinitionCaching ==
    /\ api.held = {}
    /\ api.now \cap api.before = {}

\* a word that is given once to each invocation of core's define, and for
\* which the API has definitions or not, is looked up once
DefinitionCachingCore ==
    (/\ variant = "db"
     /\ out.op = "define"
     /\ out.raised = ""
     /\ \A i, j \in DOMAIN out.words : out.words[i].text = out.words[j].text => i = j)
        => api.held = {}

(***************************************************************************)
(* The definition hints of the display layer (core/show.py), on Word       *)
(* objects that define has filled.  A hint entry is kept as its three      *)
(* parts; the wrapping of the entry into lines is not modelled.            *)
(***************************************************************************)
\* a definition that has no tab, and one that names the word it defines
NoTabDef == <<"e", "y", "e">>
SelfDef(text) == <<"n", "\t">> \o text

\* the definition lists a Word is given to the hints with
HintDefinitions(text) ==
    {<<Def1, Def2>>, <<NotFoundDef>>, <<NoTabDef>>, <<SelfDef(text)>>,
     <<SelfDef(text), Def1>>}

\* the lists of Word objects given to definition_hints
DefinedLists ==
    UNION {{[i \in DOMAIN raws |-> Word(raws[i], ds[i])] :
               ds \in {f \in [DOMAIN raws -> UNION {HintDefinitions(Lower(raws[i])) :
                                                       i \in DOMAIN raws}] :
                          \A i \in DOMAIN raws : f[i] \in HintDefinitions(Lower(raws[i]))}} :
           raws \in AnswerLists}

\* `t in d` of Python, on strings
HasText(d, t) == \E i \in 0..(Len(d) - Len(t)) : SubSeq(d, i + 1, i + Len(t)) = t

\* str.split(sep), sep one character
RECURSIVE split(_, _)
split(s, sep) ==
    IF \A i \in DOMAIN s : s[i] # sep THEN <<s>>
    ELSE LET at == CHOOSE i \in DOMAIN s : s[i] = sep /\ \A j \in 1..(i - 1) : s[j] # sep
         IN  <<SubSeq(s, 1, at - 1)>> \o split(SubSeq(s, at + 1, Len(s)), sep)

\* sorted(words), by Word.__lt__; the sort is stable
sorted(ws) ==
    LET place(i) == Cardinality({j \in DOMAIN ws : StrLess(ws[j].text, ws[i].text)})
                    + Cardinality({j \in 1..i : ws[j].text = ws[i].text})
    IN  [k \in DOMAIN ws |-> ws[CHOOSE i \in DOMAIN ws : place(i) = k]]

\* the text of a hint for a word without a definition to show
NoHint ==
    <<"N", "o", " ", "d", "e", "f", "i", "n", "i", "t", "i", "o", "n", " ",
      "a", "v", "a", "i", "l", "a", "b", "l", "e", " ", "w", "i", "t", "h",
      "o", "u", "t", " ", "t", "h", "e", " ", "w", "o", "r", "d", " ", "i",
      "t", "s", "e", "l", "f", ".">>

\* valid_definitions of definition_hints
valid_definitions(w) == SelectSeq(w.definitions, LAMBDA d : ~HasText(d, w.text))

\* what random.choice can pick for each word: an index of its valid
\* definitions (1 where there is none and nothing is picked)
Picks(ws) ==
    {f \in [DOMAIN ws -> 1..2] :
        \A i \in DOMAIN ws :
            f[i] <= IF valid_definitions(ws[i]) = <<>> THEN 1
                    ELSE Len(valid_definitions(ws[i]))}

\* definition_hints(words), random.choice picking pick[i] for the i-th
\* word in sorted order; unpacking a split that has not two parts raises
definition_hints(ws, pick) ==
    LET in_order == sorted(ws)
        parts(i) == split(valid_definitions(in_order[i])[pick[i]], "\t")
        hint(i) == IF valid_definitions(in_order[i]) = <<>> THEN NoHint ELSE parts(i)[2]
        entry(i) == [pair |-> Upper(SubSeq(in_order[i].text, 1, 2)),
                     length |-> Len(in_order[i].text),
                     hint |-> hint(i)]
    IN  IF \E i \in DOMAIN in_order :
              valid_definitions(in_order[i]) # <<>> /\ Len(parts(i)) # 2
        THEN [raised |-> "ValueError"]
        ELSE [raised |-> "", value |-> [i \in DOMAIN in_order |-> entry(i)]]

InitHints ==
    /\ word = <<>>
    /\ out = NoOut
    /\ letters = <<>>
    /\ found = NotCalled
    /\ wordlist_file = NoFile
    /\ addendum_file = NoFile
    /\ variant = "db"
    /\ db = NoDb
    /\ added = NoAdd
    /\ round = NoRound
    /\ boot = NoBoot
    /\ api = NoApi
    /\ response = NoResponse
    /\ defined_words \in DefinedLists
    /\ tasks = NoTasks

DefinitionHints ==
    /\ out = NoOut
    /\ defined_words # NoWords
    /\ \E pick \in Picks(sorted(defined_words)) :
          out' = [op |-> "definition_hints"] @@ definition_hints(defined_words, pick)
    /\ UNCHANGED <<word, findVars, fileVars, dbVars, histVars, logVars, response, showVars>>

NextHints == DefinitionHints

SpecHints == InitHints /\ [][NextHints]_vars

\* the definitions of a Word that definition_hints may pick from all have
\* one tab
Tabbed(w) == \A i \in DOMAIN w.definitions :
                ~HasText(w.definitions[i], w.text) => Len(split(w.definitions[i], "\t")) = 2

\* the hint entries are those of the words in the order of their texts:
\* the first two letters, the length, and the text after the tab of a
\* definition that does not contain the word, or the fallback text
HintsOf(ws, hints) ==
    /\ Len(hints) = Len(ws)
    /\ \A i \in DOMAIN hints :
          LET w == sorted(ws)[i]
          IN  /\ hints[i].pair = Upper(SubSeq(w.text, 1, 2))
              /\ hints[i].length = Len(w.text)
              /\ \/ /\ hints[i].hint = NoHint
                    /\ \A k \in DOMAIN w.definitions : HasText(w.definitions[k], w.text)
                 \/ \E k \in DOMAIN w.definitions :
                       /\ ~HasText(w.definitions[k], w.text)
                       /\ \E n \in DOMAIN w.definitions[k] :
                             /\ w.definitions[k][n] = "\t"
                             /\ hints[i].hint =
                                   SubSeq(w.definitions[k], n + 1, Len(w.definitions[k]))

\* C21: definition_hints returns one hint entry per word, also for words
\* whose only definition is the not-found sentinel or has no tab, and
\* never raises.
DefinitionHintsNeverFail ==
    out.op = "definition_hints" =>
        /\ out.raised = ""
        /\ HintsOf(defined_words, out.value)

\* when every definition that can be picked has its one tab,
\* definition_hints returns one entry per word
DefinitionHintsOnTabbed ==
    (/\ out.op = "definition_hints"
     /\ \A i \in DOMAIN defined_words : Tabbed(defined_words[i]))
        => /\ out.raised = ""
           /\ HintsOf(defined_words, out.value)

DefinitionHintsOnTabbedWitness ==
    /\ out.op = "definition_hints"
    /\ out.raised = ""
    /\ Len(out.value) = 2
    /\ \E i \in 1..2 : out.value[i].hint = NoHint
    /\ \E i \in 1..2 : out.value[i].hint = <<"t", "a", "n">>

(***************************************************************************)
(* One batch of concurrent lookups: asyncio.gather over one coroutine per  *)
(* word, in core/definitions.py, definitions.py and sbsolver.py.  A        *)
(* coroutine is started, waits for the answer to its request, and runs to  *)
(* its end when the answer is there; the answers come in any order.        *)
(***************************************************************************)
\* how many coroutines a batch has
MaxBatch == 2

BatchPrograms == {"core", "definitions", "sbsolver"}

\* the answers of the API in a batch: one definition, two definitions, an
\* empty list of results, an error page that is no JSON
BatchResponses ==
    {[status_code |-> OkStatus, json |-> TRUE,
      data |-> <<[has_defs |-> TRUE, defs |-> [i \in 1..n |-> DefAt(i)]]>>] : n \in 1..2}
    \cup {[status_code |-> OkStatus, json |-> TRUE, data |-> <<>>],
          [status_code |-> 503, json |-> FALSE, data |-> <<>>]}

\* the sequences of length 1..MaxBatch over a set
SeqsUpTo(S) == UNION {[1..n -> S] : n \in 1..MaxBatch}

\* the words of a batch: core's list of Word objects (`undefined` of
\* define), and the order a set of strings is iterated in
BatchWords(program) ==
    IF program = "core" THEN SeqsUpTo(StoreRaws)
    ELSE UNION {Orders(S) : S \in {T \in SUBSET StoreRaws : Cardinality(T) \in 1..MaxBatch}}

\* what the coroutine of a program returns or raises on an answer
fetch_defs(program, w, r) ==
    CASE program = "core" -> async_fetch_defs(w, r)
      [] program = "definitions" -> definitions_async_fetch_defs(w, r)
      [] program = "sbsolver" -> sb_define(w, r)

\* asyncio.gather(*batch), as it would be with the results in the order
\* the coroutines end in
gather_as_completed(ts) == [k \in DOMAIN ts.finished |-> ts.results[ts.finished[k]]]

\* asyncio.gather(*batch): the results in the order of the awaitables
gather(ts) == ts.results

\* the dict an older program builds from the results of gather:
\* definitions.py merges the entries, each a word with its definitions;
\* sbsolver.py pairs the words with the results, zip(undefined, results)
batch_dict(program, ws, results) ==
    IF program = "definitions"
    THEN [w \in {results[i].word : i \in DOMAIN results} |->
             results[CHOOSE i \in DOMAIN results :
                        /\ results[i].word = w
                        /\ \A j \in DOMAIN results : results[j].word = w => j <= i].defs]
    ELSE [w \in {ws[i] : i \in 1..(IF Len(ws) < Len(results) THEN Len(ws) ELSE Len(results))} |->
             [defs |-> results[CHOOSE i \in DOMAIN ws :
                                  /\ ws[i] = w
                                  /\ \A j \in DOMAIN ws : ws[j] = w => j <= i]]]

InitBatch ==
    /\ word = <<>>
    /\ out = NoOut
    /\ letters = <<>>
    /\ found = NotCalled
    /\ wordlist_file = NoFile
    /\ addendum_file = NoFile
    /\ variant = "db"
    /\ db = NoDb
    /\ added = NoAdd
    /\ round = NoRound
    /\ boot = NoBoot
    /\ api = NoApi
    /\ response = NoResponse
    /\ \E program \in BatchPrograms :
       \E ws \in BatchWords(program) :
       \E answers \in [DOMAIN ws -> BatchResponses] :
          /\ defined_words = IF program = "core" THEN from_list(ws) ELSE NoWords
          /\ tasks = [program |-> program,
                      words |-> IF program = "core" THEN [i \in DOMAIN ws |-> Lower(ws[i])]
                                ELSE ws,
                      answers |-> answers,
                      pc |-> [i \in DOMAIN ws |-> "created"],
                      results |-> [i \in DOMAIN ws |-> <<>>],
                      finished |-> <<>>,
                      ended |-> FALSE]

\* a coroutine runs to its await of client.get; the event loop starts the
\* coroutines in the order gather was given them
Send(i) ==
    /\ ~tasks.ended
    /\ tasks.pc[i] = "created"
    /\ \A j \in 1..(i - 1) : tasks.pc[j] # "created"
    /\ tasks' = [tasks EXCEPT !.pc[i] = "awaiting"]
    /\ UNCHANGED <<wordVars, findVars, fileVars, dbVars, histVars, logVars, response,
                   defined_words>>

\* the answer to the request of a coroutine is there and the coroutine
\* runs to its end: core's sets the definitions of its Word, the older
\* ones return theirs
Receive(i) ==
    /\ ~tasks.ended
    /\ tasks.pc[i] = "awaiting"
    /\ \E got \in {fetch_defs(tasks.program, tasks.words[i], tasks.answers[i])} :
          IF got.raised # ""
          THEN /\ tasks' = [tasks EXCEPT !.pc[i] = got.raised]
               /\ UNCHANGED defined_words
          ELSE /\ tasks' = [tasks EXCEPT !.pc[i] = "done",
                                         !.results[i] =
                                             CASE tasks.program = "core" -> <<>>
                                               [] tasks.program = "definitions" ->
                                                     [word |-> tasks.words[i],
                                                      defs |-> got.value]
                                               [] tasks.program = "sbsolver" -> got.value,
                                         !.finished = Append(@, i)]
               /\ defined_words' =
                     IF tasks.program = "core"
                     THEN [defined_words EXCEPT ![i].definitions = got.value]
                     ELSE defined_words
    /\ UNCHANGED <<wordVars, findVars, fileVars, dbVars, histVars, logVars, response>>

\* every coroutine has ended: gather returns, and the older programs
\* build their dict
Gather ==
    /\ ~tasks.ended
    /\ \A i \in DOMAIN tasks.pc : tasks.pc[i] = "done"
    /\ tasks' = [tasks EXCEPT !.ended = TRUE]
    /\ out' = IF tasks.program = "core"
              THEN [op |-> "async_batch_fetch", raised |-> ""]
              ELSE [op |-> "async_batch_fetch", raised |-> "",
                    value |-> batch_dict(tasks.program, tasks.words, gather(tasks))]
    /\ UNCHANGED <<word, findVars, fileVars, dbVars, histVars, logVars, response,
                   defined_words>>

\* a coroutine has raised: gather raises its exception to the caller
GatherRaises ==
    /\ ~tasks.ended
    /\ \E i \in DOMAIN tasks.pc :
          /\ tasks.pc[i] \notin {"created", "awaiting", "done"}
          /\ out' = [op |-> "async_batch_fetch", raised |-> tasks.pc[i]]
    /\ tasks' = [tasks EXCEPT !.ended = TRUE]
    /\ UNCHANGED <<word, findVars, fileVars, dbVars, histVars, logVars, response,
                   defined_words>>

NextBatch ==
    \/ \E i \in DOMAIN tasks.pc : Send(i)
    \/ \E i \in DOMAIN tasks.pc : Receive(i)
    \/ Gather
    \/ GatherRaises

SpecBatch == InitBatch /\ [][NextBatch]_vars

\* the definitions the i-th word of the batch holds when the batch is over
Holds(i) ==
    CASE tasks.program = "core" -> defined_words[i].definitions
      [] tasks.program = "definitions" -> out.value[tasks.words[i]]
      [] tasks.program = "sbsolver" -> out.value[tasks.words[i]].defs

BatchOrderIndependentCoreWitness ==
    /\ out.op = "async_batch_fetch"
    /\ out.raised = ""
    /\ tasks.program = "core"
    /\ tasks.finished = <<2, 1>>
    /\ defined_words[1].text = defined_words[2].text
    /\ defined_words[1].definitions # defined_words[2].definitions

\* C23: a define that fetches definitions for new words leaves the
\* definition rows of every word that had definitions as they were, in the
\* schema with UNIQUE(word_id, definition) and in the one without.
StoredDefinitionsPreserved ==
    [][\A w \in TableWords(db) :
          stored_definitions(db, w) # <<>> =>
              stored_definitions(db', w) = stored_definitions(db, w)]_vars

\* core's define, given Words of different texts, leaves the rows of the
\* words that had definitions as they were
StoredDefinitionsPreservedCore ==
    [][(/\ variant = "db"
        /\ out'.op = "define"
        /\ out'.raised = ""
        /\ \A i, j \in DOMAIN out'.words :
              out'.words[i].text = out'.words[j].text => i = j)
       => \A w \in TableWords(db) :
             stored_definitions(db, w) # <<>> =>
                 stored_definitions(db', w) = stored_definitions(db, w)]_vars

\* as sbsolver.score, the bonus given to a word as long as the letters
sb_score_by_length(w, p) ==
    LET points == IF Len(w) = ShortWordLen THEN 1 ELSE Len(w)
    IN  points + (IF Len(w) = Len(p) THEN PangramBonus ELSE 0)

\* sbsolver.score(word, letters)
sb_score(w, p) ==
    LET points == IF Len(w) = ShortWordLen THEN 1 ELSE Len(w)
    IN  points + (IF CharSet(w) = CharSet(p) THEN PangramBonus ELSE 0)

\* C24: for a puzzle of 7 distinct letters, every word find_words returns
\* has one score: sbsolver.score(w, letters), word_logic.score(w) and
\* Word(w).score are equal.
ScoresAgree ==
    (found.by # "none" /\ found.raised = "" /\ WellFormed(letters)) =>
        \A w \in FoundWords :
            /\ sb_score(w, letters) = score(w)
            /\ score(w) = Word(w, <<>>).score

\* find_words has returned, for a puzzle of 7 distinct letters, a pangram,
\* and a word of 7 letters or more that is none
ScoresAgreeWitness ==
    /\ found.by # "none"
    /\ found.raised = ""
    /\ WellFormed(letters)
    /\ \E w \in FoundWords : CharSet(w) = CharSet(letters) /\ Len(w) > PuzzleLetters
    /\ \E w \in FoundWords : CharSet(w) # CharSet(letters)

====
